---- MODULE Spec2Model ----
(***************************************************************************)
(* The bubble translation pipeline of the comic translator:                *)
(* process_comic_page_with_languages (translate_and_fill_bubbles_multilang) *)
(* run by the image branch of process_translation (app.py).                *)
(*                                                                         *)
(* A text is a sequence of tokens; the token " " is white space and every  *)
(* other token is a word, so that str.strip() and the comparisons with the *)
(* sentinels "EMPTY" and "ERROR" are computed, not assumed.                *)
(***************************************************************************)
EXTENDS Integers, Sequences, FiniteSets, TLC

\* Largest number of boxes the detector reports for one page.
MaxBubbles == 2

\* context_manager.get_context_prompt(max_previous_bubbles=8)
MaxPreviousBubbles == 8

----------------------------------------------------------------------------
(* Texts *)

\* Python's None, and a dict key that is not set yet.
NoneVal == <<"<None>">>

EMPTY == <<"EMPTY">>
ERROR == <<"ERROR">>

\* the list ["EMPTY", "ERROR"] every stage tests membership of
SENTINELS == {EMPTY, ERROR}

RECURSIVE LStrip(_)
LStrip(s) == IF s # <<>> /\ Head(s) = " " THEN LStrip(Tail(s)) ELSE s

RECURSIVE RStrip(_)
RStrip(s) ==
    IF s # <<>> /\ s[Len(s)] = " " THEN RStrip(SubSeq(s, 1, Len(s) - 1)) ELSE s

\* str.strip()
Strip(s) == RStrip(LStrip(s))

\* The word the page shows in the region the detector numbered id.
Word(id) == "T" \o ToString(id)

\* What the extraction capability can answer for the crop of region id:
\* the region's text (with the white space a model reply may carry), the word
\* EMPTY its prompt asks for, an empty string, or only white space.
OcrContents(id) == { <<" ", Word(id), " ">>, <<"EMPTY">>, <<>>, <<" ">> }

\* What the translation capability answers for a request about text.
TranslationContent(text) == <<" ", "ru:">> \o text

\* The outcome of one call of chat.completions.create: a response whose
\* message.content is a string, a response whose content is None, or an
\* exception (service error, timeout).
NoReply == [kind |-> "none", content |-> <<>>]
ContentReply(c) == [kind |-> "content", content |-> c]
AbsentReply == [kind |-> "absent", content |-> <<>>]
ExceptionReply == [kind |-> "exception", content |-> <<>>]

----------------------------------------------------------------------------
(* Geometry *)

\* Boxes the detector may report, as xyxy corners.
Boxes == { [x1 |-> 10, y1 |-> 10, x2 |-> 110, y2 |-> 50],
           [x1 |-> 10, y1 |-> 60, x2 |-> 110, y2 |-> 100],
           [x1 |-> 200, y1 |-> 10, x2 |-> 300, y2 |-> 50] }

\* The detector's reports: every sequence of at most MaxBubbles boxes.
Detections == UNION { [1..n -> Boxes] : n \in 0..MaxBubbles }

\* bubble_info of the i-th reported box; original_text and translated_text
\* are keys the later stages add.
BubbleInfo(i, box) ==
    [ bubble_id |-> i,
      x |-> box.x1, y |-> box.y1,
      width |-> box.x2 - box.x1, height |-> box.y2 - box.y1,
      center_x |-> (box.x1 + box.x2) \div 2,
      center_y |-> (box.y1 + box.y2) \div 2,
      original_text |-> NoneVal,
      translated_text |-> NoneVal ]

\* detect_speech_bubbles: one bubble_info per box, ids by enumerate(boxes).
DetectSpeechBubbles(boxes) == [i \in 1..Len(boxes) |-> BubbleInfo(i, boxes[i])]

\* key=lambda b: (b['y'], b['x']), compared as Python compares tuples
KeyLess(a, b) == a.y < b.y \/ (a.y = b.y /\ a.x < b.x)

\* a sort that is not stable: a goes in front of the elements with an equal key
InsertBeforeEqual(sorted, a) ==
    LET k == Cardinality({ j \in 1..Len(sorted) : KeyLess(sorted[j], a) })
    IN  SubSeq(sorted, 1, k) \o <<a>> \o SubSeq(sorted, k + 1, Len(sorted))

\* a goes behind every element that does not sort after it: equal keys keep
\* their order, as list.sort guarantees (it is stable)
InsertSorted(sorted, a) ==
    LET k == Cardinality({ j \in 1..Len(sorted) : ~KeyLess(a, sorted[j]) })
    IN  SubSeq(sorted, 1, k) \o <<a>> \o SubSeq(sorted, k + 1, Len(sorted))

RECURSIVE SortBubbles(_)
\* bubble_data.sort(key=lambda b: (b['y'], b['x']))
SortBubbles(s) ==
    IF s = <<>> THEN <<>>
    ELSE InsertSorted(SortBubbles(SubSeq(s, 1, Len(s) - 1)), s[Len(s)])

----------------------------------------------------------------------------
(* State *)

VARIABLES
    pc,                 \* where the worker thread of the job is
    job,                \* translation_jobs[job_id]
    detected,           \* whether the detector call has returned
    detections,         \* the boxes the detector reported, in its order
    bubble_data,        \* the page's bubbles, sorted
    extraction_tasks,   \* one extraction coroutine per bubble
    files,              \* the temporary crop files on disk
    context_manager,    \* the entries of the page's TranslationContext
    translation_tasks,  \* one translation coroutine per translatable bubble
    draw_log,           \* the draw calls on the output image, in order
    output_exists,      \* whether output_path has been written
    exc                 \* the exception that escaped the pipeline, if any

\* one call of draw_text_in_bubble
VARIABLES
    draw_pc,            \* where the call is
    draw_args,          \* text, bubble_info and max_font_size of the call
    font_size,          \* the local font_size
    font,               \* the local font: unbound until the loop body binds it
    iterations,         \* how many times the loop body has run
    draw_returned       \* what the call returned or raised

draw_vars == << draw_pc, draw_args, font_size, font, iterations, draw_returned >>

\* one run of translate_comic_series_multimodal
VARIABLES
    series_pc,          \* where the run is
    page_i,             \* the loop index i (page_num = i + 1)
    store,              \* the MultimodalTranslationContext of the run
    context_files       \* the context file of each page on disk

series_vars == << series_pc, page_i, store, context_files >>

\* calls made on one MultimodalTranslationContext
VARIABLES
    calls,              \* how many calls were made on the store
    prompt              \* the window and the recent_bubbles of the last prompt

store_vars == << calls, prompt >>

\* Runs of the pipelines that share one working directory
VARIABLES
    crop_runs,          \* the runs: pipeline, bubbles still to crop, state
    disk,               \* the temp files that exist: name, and whose crop it holds
    crops               \* the crops whose extraction has not resolved yet

crop_vars == << crop_runs, disk, crops >>

vars == << pc, job, detected, detections, bubble_data, extraction_tasks, files,
           context_manager, translation_tasks, draw_log, output_exists, exc,
           draw_vars, series_vars, store_vars, crop_vars >>

pipeline_locals == << detected, detections, bubble_data, extraction_tasks,
                      context_manager, translation_tasks, draw_log >>

\* no call of draw_text_in_bubble yet
DrawIdle ==
    /\ draw_pc = "idle"
    /\ draw_args = [ text |-> <<>>, width |-> 0, height |-> 0, max_font_size |-> 0 ]
    /\ font_size = 0
    /\ font = "unbound"
    /\ iterations = 0
    /\ draw_returned = "none"

\* how many pages a series has
MaxPages == 2

\* MultimodalTranslationContext.__init__. characters is the dict in insertion
\* order, one CharacterInfo per name; current_page_context is <<>> for None
\* and a one-element sequence otherwise.
NewStore ==
    [ characters |-> <<>>, page_contexts |-> <<>>, bubble_contexts |-> <<>>,
      story_arc |-> "", genre |-> "", current_page |-> 1,
      current_page_context |-> <<>> ]

\* the parsed content of a context file: the six keys save_context writes
EmptyDoc ==
    [ characters |-> <<>>, page_contexts |-> <<>>, bubble_contexts |-> <<>>,
      story_arc |-> "", genre |-> "", current_page |-> 1 ]

\* a path at which there is no file
MissingFile == [ kind |-> "missing", data |-> EmptyDoc ]

\* no call on the store yet
StoreIdle ==
    /\ calls = 0
    /\ prompt = [ max_context_bubbles |-> 0, recent_bubbles |-> <<>> ]

\* no run has started and the working directory holds no temp file
CropIdle ==
    /\ crop_runs = <<>>
    /\ disk = {}
    /\ crops = {}

\* no run of translate_comic_series_multimodal yet
SeriesIdle ==
    /\ series_pc = "idle"
    /\ page_i = 0
    /\ store = NewStore
    /\ context_files = [k \in 1..MaxPages |-> MissingFile]

\* None in a field of the job entry
Null == "null"

\* the entry upload_file registers before it starts the worker thread
NewJob == [ status |-> "processing", progress |-> 0,
            output_file |-> Null, error |-> Null ]

Init ==
    /\ pc = "thread_start"
    /\ job = NewJob
    /\ detected = FALSE
    /\ detections = <<>>
    /\ bubble_data = <<>>
    /\ extraction_tasks = <<>>
    /\ files = {}
    /\ context_manager = <<>>
    /\ translation_tasks = <<>>
    /\ draw_log = <<>>
    /\ output_exists = FALSE
    /\ exc = "none"
    /\ DrawIdle
    /\ SeriesIdle
    /\ StoreIdle
    /\ CropIdle

----------------------------------------------------------------------------
(* process_translation, before the pipeline *)

\* translation_jobs[job_id]['progress'] = 10
ProcessTranslationStart ==
    /\ pc = "thread_start"
    /\ job' = [job EXCEPT !.progress = 10]
    /\ pc' = "check_key"
    /\ UNCHANGED << draw_vars, series_vars, store_vars, crop_vars >>
    /\ UNCHANGED << pipeline_locals, files, output_exists, exc >>

\* os.getenv("OPENAI_API_KEY"): a missing key raises into the handler
CheckApiKey ==
    /\ pc = "check_key"
    /\ \E has_key \in BOOLEAN :
          IF has_key
          THEN /\ job' = [job EXCEPT !.progress = 30]
               /\ pc' = "load_model"
          ELSE /\ job' = job
               /\ pc' = "except"
    /\ UNCHANGED << draw_vars, series_vars, store_vars, crop_vars >>
    /\ UNCHANGED << pipeline_locals, files, output_exists, exc >>

----------------------------------------------------------------------------
(* process_comic_page_with_languages *)

\* load_speech_bubble_model returns None when the weights cannot be loaded,
\* and the pipeline then returns without a result
LoadModel ==
    /\ pc = "load_model"
    /\ \E loaded \in BOOLEAN :
          pc' = IF loaded THEN "detect" ELSE "returned"
    /\ UNCHANGED << draw_vars, series_vars, store_vars, crop_vars >>
    /\ UNCHANGED << job, pipeline_locals, files, output_exists, exc >>

\* detect_speech_bubbles, the sort and the test for an empty list
Detect ==
    /\ pc = "detect"
    /\ \E boxes \in Detections :
          /\ detected' = TRUE
          /\ detections' = boxes
          /\ bubble_data' = SortBubbles(DetectSpeechBubbles(boxes))
          /\ pc' = IF boxes = <<>> THEN "returned" ELSE "crop"
    /\ UNCHANGED << draw_vars, series_vars, store_vars, crop_vars >>
    /\ UNCHANGED << job, extraction_tasks, files, context_manager,
                    translation_tasks, draw_log, output_exists, exc >>

\* the detector call raises: nothing in the pipeline catches it
DetectRaises ==
    /\ pc = "detect"
    /\ pc' = "raised"
    /\ exc' = "detect"
    /\ UNCHANGED << draw_vars, series_vars, store_vars, crop_vars >>
    /\ UNCHANGED << job, pipeline_locals, files, output_exists >>

\* temp_path of crop_bubble_region: the prefix is drawn anew for every crop
\* (uuid4) and is written here as the bubble the crop is made for
TempPath(bubble) == [prefix |-> bubble.bubble_id, bubble_id |-> bubble.bubble_id]

\* the coroutine extract_text_from_bubble_async(client, bubble_image, bubble),
\* not started yet
ExtractionTask(bubble) ==
    [ state |-> "pending", bubble_image |-> TempPath(bubble),
      reply |-> NoReply, result |-> NoneVal ]

\* The loop that crops every bubble and creates its coroutine. cv2.imread
\* and cv2.imwrite may fail for a bubble (fail_at); the exception leaves the
\* loop and the pipeline, and the crops written before it stay on disk.
CropAll ==
    /\ pc = "crop"
    /\ \E fail_at \in 0..Len(bubble_data) :
          IF fail_at = 0
          THEN /\ files' = files \cup { TempPath(bubble_data[i]) : i \in 1..Len(bubble_data) }
               /\ extraction_tasks' =
                     [i \in 1..Len(bubble_data) |-> ExtractionTask(bubble_data[i])]
               /\ pc' = "extracting"
               /\ exc' = exc
          ELSE /\ files' = files \cup { TempPath(bubble_data[i]) : i \in 1..(fail_at - 1) }
               /\ extraction_tasks' =
                     [i \in 1..(fail_at - 1) |-> ExtractionTask(bubble_data[i])]
               /\ pc' = "raised"
               /\ exc' = "crop"
    /\ UNCHANGED << draw_vars, series_vars, store_vars, crop_vars >>
    /\ UNCHANGED << job, detected, detections, bubble_data, context_manager,
                    translation_tasks, draw_log, output_exists >>

\* a handler that hands back whatever the reply held instead of "ERROR"
ExtractedTextNoHandler(reply) ==
    IF reply.kind = "content" THEN Strip(reply.content) ELSE reply.content

\* What extract_text_from_bubble_async returns for a reply: the stripped
\* content; "ERROR" from the handler when the call raised or when the content
\* is None (None.strip() raises inside the try).
ExtractedText(reply) ==
    IF reply.kind = "content" THEN Strip(reply.content) ELSE ERROR

ExtractionReplies(bubble) ==
    { ContentReply(c) : c \in OcrContents(bubble.bubble_id) }
        \cup { AbsentReply, ExceptionReply }

\* Task i of the extraction gather resolves: its call returned or raised, and
\* both the success path and the handler remove the crop.
ExtractResolve(i) ==
    /\ pc = "extracting"
    /\ extraction_tasks[i].state = "pending"
    /\ \E reply \in ExtractionReplies(bubble_data[i]) :
          extraction_tasks' = [extraction_tasks EXCEPT ![i] =
              [@ EXCEPT !.state = "done", !.reply = reply,
                        !.result = ExtractedText(reply)]]
    /\ files' = files \ { extraction_tasks[i].bubble_image }
    /\ UNCHANGED << draw_vars, series_vars, store_vars, crop_vars >>
    /\ UNCHANGED << pc, job, detected, detections, bubble_data, context_manager,
                    translation_tasks, draw_log, output_exists, exc >>

\* encode_image(bubble_image) runs before the try of task i, as the task
\* starts: when the crop cannot be read, the exception leaves gather and the
\* pipeline, and asyncio.run cancels the sibling tasks at their await, where
\* "except Exception" does not catch the cancellation. No crop is removed.
ExtractReadFails(i) ==
    /\ pc = "extracting"
    /\ \A k \in 1..Len(extraction_tasks) : extraction_tasks[k].state = "pending"
    /\ extraction_tasks' =
          [k \in 1..Len(extraction_tasks) |->
              [extraction_tasks[k] EXCEPT
                  !.state = IF k = i THEN "raised" ELSE "cancelled"]]
    /\ pc' = "raised"
    /\ exc' = "read"
    /\ UNCHANGED << draw_vars, series_vars, store_vars, crop_vars >>
    /\ UNCHANGED << job, detected, detections, bubble_data, files, context_manager,
                    translation_tasks, draw_log, output_exists >>

----------------------------------------------------------------------------
(* TranslationContext: the page's context store *)

\* TranslationContext(): an empty store
NewContext == <<>>

\* add_bubble_to_context(bubble_id, original_text): one more entry, last
AddBubbleToContext(ctx, bubble_id, original_text) ==
    Append(ctx, [ bubble_id |-> bubble_id, original_text |-> original_text,
                  translated_text |-> NoneVal ])

\* get_context_prompt(max_previous_bubbles): the last entries of the store
GetContextPrompt(ctx, max_previous_bubbles) ==
    IF Len(ctx) <= max_previous_bubbles THEN ctx
    ELSE SubSeq(ctx, Len(ctx) - max_previous_bubbles + 1, Len(ctx))

----------------------------------------------------------------------------
(* Between the two gathers *)

\* a write-back in the order the calls completed instead of the order of the
\* tasks: the results are rotated by one place
AssignOriginalRotated(bd, extraction_results) ==
    [i \in 1..Len(bd) |->
        [bd[i] EXCEPT !.original_text = extraction_results[(i % Len(bd)) + 1]]]

\* bubble['original_text'] = extraction_results[i]
AssignOriginal(bd, extraction_results) ==
    [i \in 1..Len(bd) |-> [bd[i] EXCEPT !.original_text = extraction_results[i]]]

\* a context that holds the first bubble of the page only
SeedFirstOnly(bd, n) ==
    IF n = 0 \/ bd[1].original_text \in SENTINELS THEN NewContext
    ELSE AddBubbleToContext(NewContext, bd[1].bubble_id, bd[1].original_text)

RECURSIVE SeedContext(_, _)
\* the context after the first n bubbles were offered to it: every bubble
\* whose original text is no sentinel is added
SeedContext(bd, n) ==
    IF n = 0 THEN NewContext
    ELSE IF bd[n].original_text \notin SENTINELS
         THEN AddBubbleToContext(SeedContext(bd, n - 1), bd[n].bubble_id,
                                 bd[n].original_text)
         ELSE SeedContext(bd, n - 1)

\* translation_indices: the bubbles a translation task is created for
TranslationIndices(bd) ==
    SelectSeq([i \in 1..Len(bd) |-> i],
              LAMBDA i : bd[i].original_text \notin SENTINELS)

\* the coroutine translate_text_async(client, text, context_manager, ...):
\* it returns at once for a sentinel, and otherwise builds its prompt from
\* the context and issues one request
TranslationTask(i, text, ctx) ==
    [ index |-> i, text |-> text,
      requested |-> text \notin SENTINELS,
      context_prompt |-> GetContextPrompt(ctx, MaxPreviousBubbles),
      state |-> IF text \in SENTINELS THEN "done" ELSE "pending",
      reply |-> NoReply,
      result |-> IF text \in SENTINELS THEN text ELSE NoneVal ]

\* a handler that reports the failure instead of echoing the text
TranslatedTextOrError(text, reply) ==
    IF reply.kind = "content" THEN Strip(reply.content) ELSE ERROR

\* What translate_text_async returns for a reply: the stripped content, or
\* the text itself from the handler when the call raised or the content is None
TranslatedText(text, reply) ==
    IF reply.kind = "content" THEN Strip(reply.content) ELSE text

TranslationReplies(text) ==
    { ContentReply(TranslationContent(text)), ContentReply(<<" ">>),
      AbsentReply, ExceptionReply }

----------------------------------------------------------------------------
(* Rendering *)

CoverEvent(bubble) == [op |-> "ellipse", bubble_id |-> bubble.bubble_id, text |-> <<>>]
TextEvent(bubble) ==
    [op |-> "text", bubble_id |-> bubble.bubble_id, text |-> bubble.translated_text]

\* bubble.get('translated_text'): a string that is not empty
Truthy(text) == text # NoneVal /\ text # <<>>

\* one pass: the ellipse of a bubble and then its text, bubble after bubble
RenderPerBubble(bd) ==
    LET Events(b) ==
            (IF b.original_text \notin SENTINELS THEN <<CoverEvent(b)>> ELSE <<>>)
            \o (IF Truthy(b.translated_text) /\ b.translated_text \notin SENTINELS
                THEN <<TextEvent(b)>> ELSE <<>>)
        Upto[n \in 0..Len(bd)] ==
            IF n = 0 THEN <<>> ELSE Upto[n - 1] \o Events(bd[n])
    IN  Upto[Len(bd)]

\* a second pass that draws every translated text that is set
RenderAnyText(bd) ==
    LET covers == SelectSeq(bd, LAMBDA b : b.original_text \notin SENTINELS)
        texts == SelectSeq(bd, LAMBDA b : Truthy(b.translated_text))
    IN  [k \in 1..Len(covers) |-> CoverEvent(covers[k])]
            \o [k \in 1..Len(texts) |-> TextEvent(texts[k])]

\* The two passes over bubble_data: first the white ellipses of the bubbles
\* whose original text is no sentinel, then draw_text_in_bubble for the
\* bubbles whose translated text is set, not empty and no sentinel.
Render(bd) ==
    LET covers == SelectSeq(bd, LAMBDA b : b.original_text \notin SENTINELS)
        texts == SelectSeq(bd, LAMBDA b : Truthy(b.translated_text)
                                          /\ b.translated_text \notin SENTINELS)
    IN  [k \in 1..Len(covers) |-> CoverEvent(covers[k])]
            \o [k \in 1..Len(texts) |-> TextEvent(texts[k])]

\* The two passes of process_comic_page (translate_and_fill_bubbles.py): the
\* same first pass; the second draws every translated text that is no sentinel.
RenderSequential(bd) ==
    LET covers == SelectSeq(bd, LAMBDA b : b.original_text \notin SENTINELS)
        texts == SelectSeq(bd, LAMBDA b : b.translated_text \notin SENTINELS)
    IN  [k \in 1..Len(covers) |-> CoverEvent(covers[k])]
            \o [k \in 1..Len(texts) |-> TextEvent(texts[k])]

----------------------------------------------------------------------------
(* The joins of the pipeline *)

\* a gather that returns with the first task that is done
AnyDone(tasks) == \E i \in 1..Len(tasks) : tasks[i].state = "done"

\* await asyncio.gather(*tasks): it returns when every task is done
AllDone(tasks) == \A i \in 1..Len(tasks) : tasks[i].state = "done"

ExtractionResults == [i \in 1..Len(extraction_tasks) |-> extraction_tasks[i].result]

\* translated_text of the sentinel bubbles never set
SkipNothing(bd) == bd

\* the else branch: bubble['translated_text'] = bubble['original_text']
SkipSentinels(bd) ==
    [i \in 1..Len(bd) |->
        IF bd[i].original_text \in SENTINELS
        THEN [bd[i] EXCEPT !.translated_text = bd[i].original_text]
        ELSE bd[i]]

\* a write-back that stops before the last task
AssignTranslatedButLast(bd, tasks) ==
    [i \in 1..Len(bd) |->
        IF \E j \in 1..(Len(tasks) - 1) : tasks[j].index = i
        THEN [bd[i] EXCEPT !.translated_text =
                 tasks[CHOOSE j \in 1..Len(tasks) : tasks[j].index = i].result]
        ELSE bd[i]]

\* bubble_data[bubble_index]['translated_text'] = translation_results[task_index]
AssignTranslated(bd, tasks) ==
    [i \in 1..Len(bd) |->
        IF \E j \in 1..Len(tasks) : tasks[j].index = i
        THEN [bd[i] EXCEPT !.translated_text =
                 tasks[CHOOSE j \in 1..Len(tasks) : tasks[j].index = i].result]
        ELSE bd[i]]

\* The extraction gather returns when every task is done. The results are
\* written to the bubbles, the context is seeded, and one translation task is
\* created per bubble that is no sentinel. With no task at all the pipeline
\* goes on to render and save without a second gather.
JoinExtraction ==
    /\ pc = "extracting"
    /\ AllDone(extraction_tasks)
    /\ LET assigned == AssignOriginal(bubble_data, ExtractionResults)
           ctx == SeedContext(assigned, Len(assigned))
           indices == TranslationIndices(assigned)
           skipped == SkipSentinels(assigned)
       IN  /\ bubble_data' = skipped
           /\ context_manager' = ctx
           /\ translation_tasks' =
                 [j \in 1..Len(indices) |->
                     TranslationTask(indices[j], assigned[indices[j]].original_text, ctx)]
           /\ IF indices = <<>>
              THEN /\ draw_log' = Render(skipped)
                   /\ output_exists' = TRUE
                   /\ pc' = "returned"
              ELSE /\ draw_log' = draw_log
                   /\ output_exists' = output_exists
                   /\ pc' = "translating"
    /\ UNCHANGED << draw_vars, series_vars, store_vars, crop_vars >>
    /\ UNCHANGED << job, detected, detections, extraction_tasks, files, exc >>

\* a task that records its own translation in the shared context
TranslateResolveRecording(j) ==
    /\ pc = "translating"
    /\ translation_tasks[j].state = "pending"
    /\ \E reply \in TranslationReplies(translation_tasks[j].text) :
          /\ translation_tasks' = [translation_tasks EXCEPT ![j] =
                [@ EXCEPT !.state = "done", !.reply = reply,
                          !.result = TranslatedText(translation_tasks[j].text, reply)]]
          /\ context_manager' =
                [k \in 1..Len(context_manager) |->
                    IF context_manager[k].bubble_id
                          = bubble_data[translation_tasks[j].index].bubble_id
                    THEN [context_manager[k] EXCEPT !.translated_text =
                             TranslatedText(translation_tasks[j].text, reply)]
                    ELSE context_manager[k]]
    /\ UNCHANGED << draw_vars, series_vars, store_vars, crop_vars >>
    /\ UNCHANGED << pc, job, detected, detections, bubble_data, extraction_tasks,
                    files, draw_log, output_exists, exc >>

\* Task j of the translation gather resolves.
TranslateResolve(j) ==
    /\ pc = "translating"
    /\ translation_tasks[j].state = "pending"
    /\ \E reply \in TranslationReplies(translation_tasks[j].text) :
          translation_tasks' = [translation_tasks EXCEPT ![j] =
              [@ EXCEPT !.state = "done", !.reply = reply,
                        !.result = TranslatedText(translation_tasks[j].text, reply)]]
    /\ UNCHANGED << draw_vars, series_vars, store_vars, crop_vars >>
    /\ UNCHANGED << pc, job, detected, detections, bubble_data, extraction_tasks,
                    files, context_manager, draw_log, output_exists, exc >>

\* The translation gather returns when every task is done: the results are
\* written back by translation_indices, the page is rendered and saved.
JoinTranslation ==
    /\ pc = "translating"
    /\ AllDone(translation_tasks)
    /\ bubble_data' = AssignTranslated(bubble_data, translation_tasks)
    /\ draw_log' = Render(bubble_data')
    /\ output_exists' = TRUE
    /\ pc' = "returned"
    /\ UNCHANGED << draw_vars, series_vars, store_vars, crop_vars >>
    /\ UNCHANGED << job, detected, detections, extraction_tasks, files,
                    context_manager, translation_tasks, exc >>

----------------------------------------------------------------------------
(* process_translation, after the pipeline *)

\* asyncio.run returned or raised. A return is followed by the test that
\* output_path exists; a raise, and a missing output, go to the handler.
\* The frame of the pipeline is gone: its locals are dropped.
VerifyOutput ==
    /\ pc \in {"returned", "raised"}
    /\ IF pc = "returned" /\ output_exists
       THEN /\ job' = [job EXCEPT !.output_file = "output_path"]
            /\ pc' = "set_status"
       ELSE /\ job' = job
            /\ pc' = "except"
    /\ detected' = FALSE
    /\ detections' = <<>>
    /\ bubble_data' = <<>>
    /\ extraction_tasks' = <<>>
    /\ context_manager' = <<>>
    /\ translation_tasks' = <<>>
    /\ draw_log' = <<>>
    /\ exc' = "none"
    /\ UNCHANGED << draw_vars, series_vars, store_vars, crop_vars >>
    /\ UNCHANGED << files, output_exists >>

\* translation_jobs[job_id]['status'] = 'completed'
SetCompleted ==
    /\ pc = "set_status"
    /\ job' = [job EXCEPT !.status = "completed"]
    /\ pc' = "set_progress"
    /\ UNCHANGED << draw_vars, series_vars, store_vars, crop_vars >>
    /\ UNCHANGED << pipeline_locals, files, output_exists, exc >>

\* translation_jobs[job_id]['progress'] = 100
SetProgress100 ==
    /\ pc = "set_progress"
    /\ job' = [job EXCEPT !.progress = 100]
    /\ pc' = "thread_end"
    /\ UNCHANGED << draw_vars, series_vars, store_vars, crop_vars >>
    /\ UNCHANGED << pipeline_locals, files, output_exists, exc >>

\* the handler: translation_jobs[job_id]['status'] = 'failed'
SetFailed ==
    /\ pc = "except"
    /\ job' = [job EXCEPT !.status = "failed"]
    /\ pc' = "set_error"
    /\ UNCHANGED << draw_vars, series_vars, store_vars, crop_vars >>
    /\ UNCHANGED << pipeline_locals, files, output_exists, exc >>

\* the handler: translation_jobs[job_id]['error'] = str(e)
SetError ==
    /\ pc = "set_error"
    /\ job' = [job EXCEPT !.error = "message"]
    /\ pc' = "thread_end"
    /\ UNCHANGED << draw_vars, series_vars, store_vars, crop_vars >>
    /\ UNCHANGED << pipeline_locals, files, output_exists, exc >>

----------------------------------------------------------------------------
(* draw_text_in_bubble: a text is a sequence of characters, " " the blank *)

\* while font_size > 8
FontFloor == 8
\* font_size -= 2
FontStep == 2
\* max_font_size=40
DefaultMaxFontSize == 40
\* the largest other max_font_size a call is made with
MaxFontSizeArg == 13

FontSizes == ((FontFloor - 1)..MaxFontSizeArg) \cup {DefaultMaxFontSize}

DrawTexts ==
    { <<>>, <<" ">>, <<"a", "a", " ", "a", "a", "a">>,
      <<"a", "a", "a", "a", "a", "a", "a", "a", "a", " ", "a", "a">> }

\* width and height of the bubbles: the boxes of the detector, a small
\* bubble and a zero-area one
DrawSizes ==
    { [width |-> b.x2 - b.x1, height |-> b.y2 - b.y1] : b \in Boxes }
        \cup { [width |-> 30, height |-> 12], [width |-> 0, height |-> 0] }

RECURSIVE Chunks(_)
\* TextWrapper._split: the maximal runs of blanks and of other characters
Chunks(text) ==
    IF text = <<>> THEN <<>>
    ELSE LET rest == Chunks(Tail(text))
             blank == Head(text) = " "
         IN  IF rest # <<>> /\ rest[1].blank = blank
             THEN << [n |-> rest[1].n + 1, blank |-> blank] >> \o Tail(rest)
             ELSE << [n |-> 1, blank |-> blank] >> \o rest

RECURSIVE TakeFitting(_, _, _, _, _)
\* the inner loop of _wrap_chunks: chunks go on the line while they fit
TakeFitting(chunks, width, cur_len, items, last_blank) ==
    IF chunks # <<>> /\ cur_len + chunks[1].n <= width
    THEN TakeFitting(Tail(chunks), width, cur_len + chunks[1].n, items + 1,
                     chunks[1].blank)
    ELSE [ rest |-> chunks, cur_len |-> cur_len, items |-> items,
           last_blank |-> last_blank ]

RECURSIVE WrapChunks(_, _, _)
\* TextWrapper._wrap_chunks, counting the lines: a blank chunk at the start
\* of a later line is dropped, a chunk longer than the width is cut to fill
\* the line (_handle_long_word), a blank piece at the end of the line is
\* dropped, and the line counts if something is left on it
WrapChunks(chunks, width, lines) ==
    IF chunks = <<>> THEN lines
    ELSE LET start == IF chunks[1].blank /\ lines > 0 THEN Tail(chunks) ELSE chunks
             taken == TakeFitting(start, width, 0, 0, FALSE)
             long == taken.rest # <<>> /\ taken.rest[1].n > width
             space_left == width - taken.cur_len
             rest == IF long
                     THEN << [taken.rest[1] EXCEPT !.n = @ - space_left] >>
                             \o Tail(taken.rest)
                     ELSE taken.rest
             items == IF long THEN taken.items + 1 ELSE taken.items
             last_blank == IF long THEN space_left = 0 \/ taken.rest[1].blank
                           ELSE taken.last_blank
             kept == IF items > 0 /\ last_blank THEN items - 1 ELSE items
         IN  WrapChunks(rest, width, IF kept > 0 THEN lines + 1 ELSE lines)

\* max_chars_per_line = int(width * 0.8 / (font_size * 0.6))
MaxCharsPerLine(width, size) == (4 * width) \div (3 * size)

\* len(wrapped_lines): textwrap.fill(text, width).split('\n') has one element
\* for a text without lines, and [text] is one line
WrappedLines(text, width, size) ==
    IF MaxCharsPerLine(width, size) > 0
    THEN LET n == WrapChunks(Chunks(text), MaxCharsPerLine(width, size), 0)
         IN  IF n = 0 THEN 1 ELSE n
    ELSE 1

\* total_height <= height * 0.8, with line_height = font_size * 1.2
Fits(text, width, height, size) ==
    3 * WrappedLines(text, width, size) * size <= 2 * height

\* the call: font_size = max_font_size, font not yet bound
DrawTextInBubble ==
    /\ draw_pc = "idle"
    /\ \E text \in DrawTexts, size \in DrawSizes, max_font_size \in FontSizes :
          /\ draw_args' = [ text |-> text, width |-> size.width,
                            height |-> size.height,
                            max_font_size |-> max_font_size ]
          /\ font_size' = max_font_size
    /\ font' = "unbound"
    /\ iterations' = 0
    /\ draw_returned' = "none"
    /\ draw_pc' = "loop"
    /\ UNCHANGED << pc, job, pipeline_locals, files, output_exists, exc,
                    series_vars, store_vars, crop_vars >>

\* one run of the loop body: the font is bound (truetype, or the default
\* font when there is no font path or truetype raises); the text is drawn
\* and True returned if it fits, else font_size -= 2
ShrinkStep ==
    /\ draw_pc = "loop"
    /\ font_size > FontFloor
    /\ \E f \in {"truetype", "default"} : font' = f
    /\ iterations' = iterations + 1
    /\ IF Fits(draw_args.text, draw_args.width, draw_args.height, font_size)
       THEN /\ draw_returned' = "True"
            /\ draw_pc' = "done"
            /\ font_size' = font_size
       ELSE /\ draw_returned' = draw_returned
            /\ draw_pc' = draw_pc
            /\ font_size' = font_size - FontStep
    /\ UNCHANGED << pc, job, pipeline_locals, files, output_exists, exc,
                    draw_args, series_vars, store_vars, crop_vars >>

\* the loop condition is false: draw.text(..., font=font) and return False;
\* reading font raises UnboundLocalError when the body never ran
DrawOverflow ==
    /\ draw_pc = "loop"
    /\ font_size <= FontFloor
    /\ draw_returned' = IF font = "unbound" THEN "UnboundLocalError" ELSE "False"
    /\ draw_pc' = "done"
    /\ UNCHANGED << pc, job, pipeline_locals, files, output_exists, exc,
                    draw_args, font_size, font, iterations, series_vars, store_vars,
                    crop_vars >>

NextDraw == DrawTextInBubble \/ ShrinkStep \/ DrawOverflow

SpecDraw == Init /\ [][NextDraw]_vars

----------------------------------------------------------------------------
(* MultimodalTranslationContext: the context store of a series *)

\* how many bubbles of one page are added to the store
MaxPageBubbles == 1

\* the dataclasses, as their constructors
CharacterInfo(name, visual_description, speech_patterns, relationships, emotions_shown, first_appearance_page) ==
    [ name |-> name, visual_description |-> visual_description,
      speech_patterns |-> speech_patterns, relationships |-> relationships,
      emotions_shown |-> emotions_shown,
      first_appearance_page |-> first_appearance_page ]

PageContext(page_number, location, mood, visual_elements, time_context, characters_present, scene_description, genre, panel_layout, key_events) ==
    [ page_number |-> page_number, location |-> location, mood |-> mood,
      visual_elements |-> visual_elements, time_context |-> time_context,
      characters_present |-> characters_present,
      scene_description |-> scene_description, genre |-> genre,
      panel_layout |-> panel_layout, key_events |-> key_events ]

BubbleContext(bubble_id, original_text, translated_text, speaker, emotion, page_number) ==
    [ bubble_id |-> bubble_id, original_text |-> original_text,
      translated_text |-> translated_text, speaker |-> speaker,
      emotion |-> emotion, page_number |-> page_number ]

\* name in self.characters, and the place of the name in the dict
HasCharacter(characters, name) ==
    \E k \in 1..Len(characters) : characters[k].key = name

CharacterIndex(characters, name) ==
    CHOOSE k \in 1..Len(characters) : characters[k].key = name

\* What the vision model may answer for a page: the analysis it returned
\* (ok), or a failed call. genre "" stands for an analysis without a genre.
PageAnalyses ==
    { [ ok |-> TRUE, location |-> "roof", mood |-> "tense",
        time_context |-> "night", scene_description |-> "chase",
        genre |-> "action", key_visual_elements |-> <<"rope">>,
        key_events |-> <<"escape">>, layout |-> "grid",
        characters_analysis |->
            << [name |-> "Ann", visual_description |-> "tall", emotion |-> "angry"] >> ],
      [ ok |-> TRUE, location |-> "street", mood |-> "calm",
        time_context |-> "day", scene_description |-> "talk",
        genre |-> "", key_visual_elements |-> <<>>,
        key_events |-> <<>>, layout |-> "strip",
        characters_analysis |->
            << [name |-> "Ann", visual_description |-> "coat", emotion |-> "glad"],
               [name |-> "Bob", visual_description |-> "hat", emotion |-> "sad"] >> ],
      [ ok |-> FALSE, location |-> "", mood |-> "", time_context |-> "",
        scene_description |-> "", genre |-> "", key_visual_elements |-> <<>>,
        key_events |-> <<>>, layout |-> "", characters_analysis |-> <<>> ] }

\* _create_page_context_from_analysis
CreatePageContextFromAnalysis(analysis, page_number) ==
    PageContext(page_number, analysis.location, analysis.mood,
                analysis.key_visual_elements, analysis.time_context,
                [k \in 1..Len(analysis.characters_analysis) |->
                    analysis.characters_analysis[k].name],
                analysis.scene_description, analysis.genre, analysis.layout,
                analysis.key_events)

RECURSIVE AddNewCharacters(_, _, _, _)
\* the loop of _update_context_from_page_analysis over the first n
\* characters of the analysis: a name not yet known gets a CharacterInfo
AddNewCharacters(characters, analysed, n, current_page) ==
    IF n = 0 THEN characters
    ELSE LET before == AddNewCharacters(characters, analysed, n - 1, current_page)
             c == analysed[n]
         IN  IF c.name # "" /\ ~HasCharacter(before, c.name)
             THEN Append(before,
                    [ key |-> c.name,
                      value |-> CharacterInfo(c.name, c.visual_description, <<>>,
                                              <<>>, <<c.emotion>>, current_page) ])
             ELSE before

\* _update_context_from_page_analysis
UpdateContextFromPageAnalysis(st, analysis, page_context) ==
    [st EXCEPT
        !.genre = IF page_context.genre # "" /\ st.genre = ""
                  THEN page_context.genre ELSE st.genre,
        !.characters = AddNewCharacters(st.characters, analysis.characters_analysis,
                                        Len(analysis.characters_analysis),
                                        st.current_page)]

\* the PageContext of the except branch
DefaultPageContext(page_number) ==
    PageContext(page_number, "unknown", "neutral", <<>>, "unknown", <<>>, "",
                "unknown", "standard", <<>>)

\* analyze_page_context(image_path, page_number)
AnalyzePageContext(st, analysis, page_number) ==
    LET paged == IF page_number # 0 THEN [st EXCEPT !.current_page = page_number]
                 ELSE st
        number == IF page_number # 0 THEN page_number ELSE paged.current_page
        page_context ==
            IF analysis.ok THEN CreatePageContextFromAnalysis(analysis, number)
            ELSE DefaultPageContext(number)
        updated ==
            IF analysis.ok
            THEN UpdateContextFromPageAnalysis(paged, analysis, page_context)
            ELSE paged
    IN  [updated EXCEPT !.current_page_context = << page_context >>,
                        !.page_contexts = Append(@, page_context)]

\* identify_speaker_for_bubble: the speaker; the emotion is always "neutral"
IdentifySpeaker(st, center_x) ==
    IF st.current_page_context = <<>> THEN "unknown"
    ELSE LET present == st.current_page_context[1].characters_present
         IN  IF Len(present) = 1 THEN present[1]
             ELSE IF Len(present) = 2
                  THEN (IF center_x < 1 THEN present[1] ELSE present[2])
                  ELSE IF present # <<>> THEN present[1] ELSE "unknown"

\* the words of the texts of a series that have upper and lower case
UpperWords == {"HEY"}
LowerWords == {"why"}

\* len(text.split())
WordCount(text) == Len(SelectSeq(Chunks(text), LAMBDA c : ~c.blank))

\* text.isupper()
IsUpper(text) ==
    /\ \E k \in 1..Len(text) : text[k] \in UpperWords
    /\ \A k \in 1..Len(text) : text[k] \notin LowerWords

\* the speech patterns _update_character_info appends for a text
SpeechPatterns(text) ==
    (IF \E k \in 1..Len(text) : text[k] = "!" THEN <<"exclamatory">> ELSE <<>>)
    \o (IF \E k \in 1..Len(text) : text[k] = "?" THEN <<"questioning">> ELSE <<>>)
    \o (IF WordCount(text) > 20 THEN <<"verbose">> ELSE <<>>)
    \o (IF IsUpper(text) THEN <<"shouting">> ELSE <<>>)

\* _update_character_info(bubble_context)
UpdateCharacterInfo(characters, bubble_context) ==
    LET speaker == bubble_context.speaker
        known == IF HasCharacter(characters, speaker) THEN characters
                 ELSE Append(characters,
                        [ key |-> speaker,
                          value |-> CharacterInfo(speaker, "", <<>>, <<>>, <<>>,
                                                  bubble_context.page_number) ])
        k == CharacterIndex(known, speaker)
    IN  [known EXCEPT
            ![k].value.speech_patterns =
                IF bubble_context.original_text # <<>>
                THEN @ \o SpeechPatterns(bubble_context.original_text) ELSE @,
            ![k].value.emotions_shown =
                IF bubble_context.emotion # ""
                THEN Append(@, bubble_context.emotion) ELSE @]

\* add_bubble_to_context(bubble_id, original_text, translated_text, bubble_info)
MultimodalAddBubbleToContext(st, bubble_id, original_text, translated_text, center_x) ==
    LET speaker == IdentifySpeaker(st, center_x)
        bubble_context == BubbleContext(bubble_id, original_text, translated_text,
                                        speaker, "neutral", st.current_page)
    IN  [st EXCEPT
            !.bubble_contexts = Append(@, bubble_context),
            !.characters = IF speaker # "" /\ speaker # "unknown"
                           THEN UpdateCharacterInfo(@, bubble_context) ELSE @]

\* asdict of the three dataclasses
AsDictCharacter(c) ==
    [ name |-> c.name, visual_description |-> c.visual_description,
      speech_patterns |-> c.speech_patterns, relationships |-> c.relationships,
      emotions_shown |-> c.emotions_shown,
      first_appearance_page |-> c.first_appearance_page ]

AsDictPage(p) ==
    [ page_number |-> p.page_number, location |-> p.location, mood |-> p.mood,
      visual_elements |-> p.visual_elements, time_context |-> p.time_context,
      characters_present |-> p.characters_present,
      scene_description |-> p.scene_description, genre |-> p.genre,
      panel_layout |-> p.panel_layout, key_events |-> p.key_events ]

AsDictBubble(b) ==
    [ bubble_id |-> b.bubble_id, original_text |-> b.original_text,
      translated_text |-> b.translated_text, speaker |-> b.speaker,
      emotion |-> b.emotion, page_number |-> b.page_number ]

\* a save that writes the bubbles of the current page only
SaveContextCurrentPage(st) ==
    [ characters |->
          [k \in 1..Len(st.characters) |->
              [ key |-> st.characters[k].key,
                value |-> AsDictCharacter(st.characters[k].value) ]],
      page_contexts |->
          [k \in 1..Len(st.page_contexts) |-> AsDictPage(st.page_contexts[k])],
      bubble_contexts |->
          LET current == SelectSeq(st.bubble_contexts,
                                   LAMBDA b : b.page_number = st.current_page)
          IN  [k \in 1..Len(current) |-> AsDictBubble(current[k])],
      story_arc |-> st.story_arc, genre |-> st.genre,
      current_page |-> st.current_page ]

\* save_context: the context_data that json.dump writes. The client and
\* current_page_context are not part of it.
SaveContext(st) ==
    [ characters |->
          [k \in 1..Len(st.characters) |->
              [ key |-> st.characters[k].key,
                value |-> AsDictCharacter(st.characters[k].value) ]],
      page_contexts |->
          [k \in 1..Len(st.page_contexts) |-> AsDictPage(st.page_contexts[k])],
      bubble_contexts |->
          [k \in 1..Len(st.bubble_contexts) |-> AsDictBubble(st.bubble_contexts[k])],
      story_arc |-> st.story_arc, genre |-> st.genre,
      current_page |-> st.current_page ]

\* data.get(key, default)
DocGet(data, key, default) ==
    IF key \in DOMAIN data THEN data[key] ELSE default

\* load_context, after json.load returned data: every field but
\* current_page_context is replaced; current_page_context becomes the last
\* page context if there is one
LoadContext(st, data) ==
    LET chars == DocGet(data, "characters", <<>>)
        pages == DocGet(data, "page_contexts", <<>>)
        bubbles == DocGet(data, "bubble_contexts", <<>>)
        page_contexts ==
            [k \in 1..Len(pages) |->
                PageContext(pages[k].page_number, pages[k].location,
                            pages[k].mood, pages[k].visual_elements,
                            pages[k].time_context, pages[k].characters_present,
                            pages[k].scene_description, pages[k].genre,
                            pages[k].panel_layout, pages[k].key_events)]
    IN  [ characters |->
              [k \in 1..Len(chars) |->
                  [ key |-> chars[k].key,
                    value |-> CharacterInfo(chars[k].value.name,
                                  chars[k].value.visual_description,
                                  chars[k].value.speech_patterns,
                                  chars[k].value.relationships,
                                  chars[k].value.emotions_shown,
                                  chars[k].value.first_appearance_page) ]],
          page_contexts |-> page_contexts,
          bubble_contexts |->
              [k \in 1..Len(bubbles) |->
                  BubbleContext(bubbles[k].bubble_id, bubbles[k].original_text,
                                bubbles[k].translated_text, bubbles[k].speaker,
                                bubbles[k].emotion, bubbles[k].page_number)],
          story_arc |-> DocGet(data, "story_arc", ""),
          genre |-> DocGet(data, "genre", ""),
          current_page |-> DocGet(data, "current_page", 1),
          current_page_context |->
              IF page_contexts # <<>>
              THEN << page_contexts[Len(page_contexts)] >>
              ELSE st.current_page_context ]

\* The kinds of a context file. "json" is a file as save_context wrote it;
\* "missing" and "corrupt" make open and json.load raise; in a "bad_..." file
\* the first record of that list has a key its dataclass does not have.
BadKinds == {"bad_characters", "bad_page_contexts", "bad_bubble_contexts"}

\* the ways the file with this content can be damaged
Damages(data) ==
    {"corrupt"}
        \cup (IF data.characters # <<>> THEN {"bad_characters"} ELSE {})
        \cup (IF data.page_contexts # <<>> THEN {"bad_page_contexts"} ELSE {})
        \cup (IF data.bubble_contexts # <<>> THEN {"bad_bubble_contexts"} ELSE {})

\* load_context on a file with a bad record: the assignments before the
\* constructor that raises TypeError have been made. self.characters = {}
\* comes first and the first CharacterInfo raises; a bad page or bubble
\* record raises inside its list comprehension, before that assignment.
PartialLoad(st, data, kind) ==
    LET full == LoadContext(st, data)
    IN  IF kind = "bad_characters" THEN [st EXCEPT !.characters = <<>>]
        ELSE IF kind = "bad_page_contexts"
             THEN [st EXCEPT !.characters = full.characters]
             ELSE [st EXCEPT !.characters = full.characters,
                             !.page_contexts = full.page_contexts]

\* load_context(filepath): whether it raises, and the store afterwards
LoadContextFrom(st, file) ==
    IF file.kind = "json"
    THEN [ raised |-> FALSE, store |-> LoadContext(st, file.data) ]
    ELSE IF file.kind \in BadKinds
         THEN [ raised |-> TRUE, store |-> PartialLoad(st, file.data, file.kind) ]
         ELSE [ raised |-> TRUE, store |-> st ]

----------------------------------------------------------------------------
(* translate_comic_series_multimodal *)

\* the bubbles a page may hand to the store: text, translation (or None)
\* and the center_x of its bubble_info
PageBubbles ==
    { [ text |-> <<"HEY", "!">>, translated |-> <<"ru:", "HEY", "!">>, center_x |-> 0 ],
      [ text |-> <<"why", " ", "?">>, translated |-> NoneVal, center_x |-> 60 ] }

\* the bubbles of the current page that are in the store
BubblesOfPage(st) ==
    SelectSeq(st.bubble_contexts, LAMBDA b : b.page_number = st.current_page)

\* the api key is read and the context manager created; without a key the
\* function returns None
SeriesStart ==
    /\ series_pc = "idle"
    /\ \E api_key \in BOOLEAN :
          series_pc' = IF api_key THEN "page_start" ELSE "returned_none"
    /\ store' = NewStore
    /\ page_i' = 0
    /\ UNCHANGED << pc, job, pipeline_locals, files, output_exists, exc,
                    draw_vars, store_vars, crop_vars, context_files >>

\* between the save after a page and the next page, the file is removed
RemoveContextFile ==
    /\ series_pc = "page_start"
    /\ page_i > 0
    /\ context_files[page_i].kind = "json"
    /\ context_files' = [context_files EXCEPT ![page_i] = MissingFile]
    /\ UNCHANGED << pc, job, pipeline_locals, files, output_exists, exc,
                    draw_vars, store_vars, crop_vars, series_pc, page_i, store >>

\* ... or its content is damaged: json.load raises, or a record has a
\* key that its dataclass does not have
CorruptContextFile ==
    /\ series_pc = "page_start"
    /\ page_i > 0
    /\ context_files[page_i].kind = "json"
    /\ \E damage \in Damages(context_files[page_i].data) :
          context_files' = [context_files EXCEPT ![page_i] =
              [ kind |-> damage,
                data |-> IF damage = "corrupt" THEN EmptyDoc ELSE @.data ]]
    /\ UNCHANGED << pc, job, pipeline_locals, files, output_exists, exc,
                    draw_vars, store_vars, crop_vars, series_pc, page_i, store >>

\* "Load previous context if available": for i > 0 the file of page i is
\* loaded if os.path.exists says it is there; what load_context raises is
\* caught nowhere; without the file the page goes on
LoadPrevious ==
    /\ series_pc = "page_start"
    /\ IF page_i > 0 /\ context_files[page_i].kind # "missing"
       THEN LET loaded == LoadContextFrom(store, context_files[page_i])
            IN  /\ series_pc' = IF loaded.raised THEN "raised" ELSE "process"
                /\ store' = loaded.store
       ELSE /\ series_pc' = "process"
            /\ store' = store
    /\ UNCHANGED << pc, job, pipeline_locals, files, output_exists, exc,
                    draw_vars, store_vars, crop_vars, page_i, context_files >>

\* process_comic_page_multimodal(..., page_number, context_manager): the
\* page is analysed ...
ProcessPageAnalyze ==
    /\ series_pc = "process"
    /\ \E analysis \in PageAnalyses :
          store' = AnalyzePageContext(store, analysis, page_i + 1)
    /\ series_pc' = "bubbles"
    /\ UNCHANGED << pc, job, pipeline_locals, files, output_exists, exc,
                    draw_vars, store_vars, crop_vars, page_i, context_files >>

\* ... its bubbles are added to the context, one after the other ...
ProcessPageAddBubble ==
    /\ series_pc = "bubbles"
    /\ Len(BubblesOfPage(store)) < MaxPageBubbles
    /\ \E b \in PageBubbles :
          store' = MultimodalAddBubbleToContext(store, Len(BubblesOfPage(store)) + 1,
                                                b.text, b.translated, b.center_x)
    /\ UNCHANGED << pc, job, pipeline_locals, files, output_exists, exc,
                    draw_vars, store_vars, crop_vars, series_pc, page_i, context_files >>

\* ... and the context manager is returned
ProcessPageReturns ==
    /\ series_pc = "bubbles"
    /\ series_pc' = "save"
    /\ UNCHANGED << pc, job, pipeline_locals, files, output_exists, exc,
                    draw_vars, store_vars, crop_vars, page_i, store, context_files >>

\* context_manager.save_context(f"{output_prefix}_{page_num}_context.json"),
\* and the loop goes to the next page or ends
SaveContextFile ==
    /\ series_pc = "save"
    /\ context_files' = [context_files EXCEPT ![page_i + 1] =
                            [kind |-> "json", data |-> SaveContext(store)]]
    /\ page_i' = page_i + 1
    /\ series_pc' = IF page_i + 1 = MaxPages THEN "returned" ELSE "page_start"
    /\ UNCHANGED << pc, job, pipeline_locals, files, output_exists, exc,
                    draw_vars, store_vars, crop_vars, store >>

NextSeries ==
    \/ SeriesStart
    \/ RemoveContextFile
    \/ CorruptContextFile
    \/ LoadPrevious
    \/ ProcessPageAnalyze
    \/ ProcessPageAddBubble
    \/ ProcessPageReturns
    \/ SaveContextFile

SpecSeries == Init /\ [][NextSeries]_vars

----------------------------------------------------------------------------
(* Calls on one MultimodalTranslationContext, in any order *)

\* how many calls are made on the store
MaxStoreCalls == 4
\* max_context_bubbles: int = 8
DefaultContextBubbles == 8
\* the largest other window a prompt is asked for
MaxWindow == 2

Windows == (0..MaxWindow) \cup {DefaultContextBubbles}

\* self.bubble_contexts[-max_context_bubbles:], as Python slices: the
\* start -n counts from the end, is 0 when n is 0, and is clipped to 0
RecentBubbles(bubble_contexts, max_context_bubbles) ==
    LET length == Len(bubble_contexts)
        start == IF max_context_bubbles = 0 THEN 0
                 ELSE IF max_context_bubbles > length THEN 0
                      ELSE length - max_context_bubbles
    IN  SubSeq(bubble_contexts, start + 1, length)

\* analyze_page_context(image_path, page_number) for the next page
StoreAnalyze ==
    /\ calls < MaxStoreCalls
    /\ \E analysis \in PageAnalyses :
          store' = AnalyzePageContext(store, analysis, Len(store.page_contexts) + 1)
    /\ calls' = calls + 1
    /\ UNCHANGED << pc, job, pipeline_locals, files, output_exists, exc,
                    draw_vars, series_pc, page_i, context_files, prompt,
                    crop_vars >>

\* add_bubble_to_context(bubble_id, original_text, translated_text, bubble_info)
StoreAddBubble ==
    /\ calls < MaxStoreCalls
    /\ \E b \in PageBubbles :
          store' = MultimodalAddBubbleToContext(store, Len(store.bubble_contexts) + 1,
                                                b.text, b.translated, b.center_x)
    /\ calls' = calls + 1
    /\ UNCHANGED << pc, job, pipeline_locals, files, output_exists, exc,
                    draw_vars, series_pc, page_i, context_files, prompt,
                    crop_vars >>

\* save_context(filepath)
StoreSave ==
    /\ calls < MaxStoreCalls
    /\ context_files' = [context_files EXCEPT ![1] =
                            [kind |-> "json", data |-> SaveContext(store)]]
    /\ calls' = calls + 1
    /\ UNCHANGED << pc, job, pipeline_locals, files, output_exists, exc,
                    draw_vars, series_pc, page_i, store, prompt, crop_vars >>

\* load_context(filepath); an exception is left to the caller
StoreLoad ==
    /\ calls < MaxStoreCalls
    /\ store' = LoadContextFrom(store, context_files[1]).store
    /\ calls' = calls + 1
    /\ UNCHANGED << pc, job, pipeline_locals, files, output_exists, exc,
                    draw_vars, series_pc, page_i, context_files, prompt,
                    crop_vars >>

\* get_enhanced_translation_prompt(text, bubble_info, max_context_bubbles)
StoreGetPrompt ==
    /\ calls < MaxStoreCalls
    /\ \E max_context_bubbles \in Windows :
          prompt' = [ max_context_bubbles |-> max_context_bubbles,
                      recent_bubbles |->
                          RecentBubbles(store.bubble_contexts, max_context_bubbles) ]
    /\ calls' = calls + 1
    /\ UNCHANGED << pc, job, pipeline_locals, files, output_exists, exc,
                    draw_vars, series_vars, crop_vars >>

NextStore == StoreAnalyze \/ StoreAddBubble \/ StoreSave \/ StoreLoad \/ StoreGetPrompt

SpecStore == Init /\ [][NextStore]_vars

----------------------------------------------------------------------------
(* crop_bubble_region and the clean-up of extract_text_from_bubble, for  *)
(* the runs of the two pipelines that share one working directory         *)

\* how many runs share the working directory
MaxRuns == 2

\* the two modules whose crop_bubble_region and extract_text_from_bubble a
\* run calls: translate_and_fill_bubbles_multilang (names with a prefix) and
\* translate_and_fill_bubbles (names without one)
Pipelines == {"multilang", "sequential"}

\* uuid.uuid4().hex[:8]: a value no temp file in use carries
Uuids == 1..(MaxRuns * (MaxBubbles + 1))

FreshUuid(used) == CHOOSE u \in Uuids \ used : \A v \in Uuids \ used : u <= v

\* temp_path of crop_bubble_region. multilang: temp_bubble_{prefix}_{bubble_id}
\* with prefix = job_id or uuid4().hex[:8] and no job_id passed; sequential:
\* temp_bubble_{bubble_id}, written here with the prefix 0
CropTempPath(pipeline, used, bubble_id) ==
    IF pipeline = "multilang"
    THEN [ prefix |-> FreshUuid(used), bubble_id |-> bubble_id ]
    ELSE [ prefix |-> 0, bubble_id |-> bubble_id ]

UsedPrefixes == { f.name.prefix : f \in disk } \cup { c.name.prefix : c \in crops }

\* process_comic_page(image_path, output_path) of translate_and_fill_bubbles:
\* the client is built, then TranslationContext() is evaluated; the module
\* imports only MultimodalTranslationContext, so the name is not bound and
\* the call raises before the model is loaded or a bubble is detected
ProcessComicPage ==
    /\ Len(crop_runs) < MaxRuns
    /\ crop_runs' = Append(crop_runs,
                           [ pipeline |-> "process_comic_page", todo |-> {},
                             state |-> "raised", exc |-> "NameError" ])
    /\ UNCHANGED << pc, job, pipeline_locals, files, output_exists, exc,
                    draw_vars, series_vars, store_vars, disk, crops >>

\* a run starts to crop the bubbles of a page; detect_speech_bubbles has
\* numbered them i + 1
StartRun ==
    /\ Len(crop_runs) < MaxRuns
    /\ \E pipeline \in Pipelines, n \in 1..MaxBubbles :
          crop_runs' = Append(crop_runs,
                              [ pipeline |-> pipeline, todo |-> 1..n, state |-> "running",
                                exc |-> Null ])
    /\ UNCHANGED << pc, job, pipeline_locals, files, output_exists, exc,
                    draw_vars, series_vars, store_vars, disk, crops >>

\* crop_bubble_region of one bubble: cv2.imwrite(temp_path, cropped) replaces
\* a file of that name. The sequential loop crops a bubble only after the
\* extraction of the one before has returned.
CropBubbleRegion(r) ==
    /\ crop_runs[r].state = "running"
    /\ crop_runs[r].pipeline = "sequential" => \A c \in crops : c.run # r
    /\ \E bubble_id \in crop_runs[r].todo :
          LET temp_path == CropTempPath(crop_runs[r].pipeline, UsedPrefixes, bubble_id)
          IN  /\ disk' = { f \in disk : f.name # temp_path }
                            \cup { [name |-> temp_path, run |-> r, bubble_id |-> bubble_id] }
              /\ crops' = crops
                            \cup { [run |-> r, bubble_id |-> bubble_id, name |-> temp_path] }
              /\ crop_runs' = [crop_runs EXCEPT ![r].todo = @ \ {bubble_id}]
    /\ UNCHANGED << pc, job, pipeline_locals, files, output_exists, exc,
                    draw_vars, series_vars, store_vars >>

\* extract_text_from_bubble of one crop: encode_image opens the file, outside
\* the try, and both ways out of the try remove it. The multilang coroutines
\* run once every bubble of the page is cropped.
ExtractTextFromBubble(r) ==
    /\ crop_runs[r].state = "running"
    /\ crop_runs[r].pipeline = "multilang" => crop_runs[r].todo = {}
    /\ \E c \in crops :
          /\ c.run = r
          /\ IF \E f \in disk : f.name = c.name
             THEN /\ disk' = { f \in disk : f.name # c.name }
                  /\ crops' = crops \ {c}
                  /\ UNCHANGED crop_runs
             ELSE /\ crop_runs' = [crop_runs EXCEPT ![r].state = "raised",
                                                    ![r].exc = "FileNotFoundError"]
                  /\ crops' = { d \in crops : d.run # r }
                  /\ UNCHANGED disk
    /\ UNCHANGED << pc, job, pipeline_locals, files, output_exists, exc,
                    draw_vars, series_vars, store_vars >>

\* every bubble of the page went through its extraction
ExtractionDone(r) ==
    /\ crop_runs[r].state = "running"
    /\ crop_runs[r].todo = {}
    /\ \A c \in crops : c.run # r
    /\ crop_runs' = [crop_runs EXCEPT ![r].state = "extracted"]
    /\ UNCHANGED << pc, job, pipeline_locals, files, output_exists, exc,
                    draw_vars, series_vars, store_vars, disk, crops >>

NextCrop ==
    \/ ProcessComicPage
    \/ StartRun
    \/ \E r \in 1..Len(crop_runs) : CropBubbleRegion(r)
    \/ \E r \in 1..Len(crop_runs) : ExtractTextFromBubble(r)
    \/ \E r \in 1..Len(crop_runs) : ExtractionDone(r)

SpecCrop == Init /\ [][NextCrop]_vars

----------------------------------------------------------------------------

Next ==
    \/ ProcessTranslationStart
    \/ CheckApiKey
    \/ LoadModel
    \/ Detect
    \/ DetectRaises
    \/ CropAll
    \/ \E i \in 1..MaxBubbles : i <= Len(extraction_tasks) /\ ExtractResolve(i)
    \/ \E i \in 1..MaxBubbles : i <= Len(extraction_tasks) /\ ExtractReadFails(i)
    \/ JoinExtraction
    \/ \E j \in 1..MaxBubbles : j <= Len(translation_tasks) /\ TranslateResolve(j)
    \/ JoinTranslation
    \/ VerifyOutput
    \/ SetCompleted
    \/ SetProgress100
    \/ SetFailed
    \/ SetError

Spec == Init /\ [][Next]_vars

----------------------------------------------------------------------------
(* upload_file: the request that registers the job and starts its worker *)

\* keys of SUPPORTED_LANGUAGES
SupportedLanguages ==
    {"en", "ru", "es", "fr", "de", "it", "pt", "ja", "ko", "zh", "ar", "hi"}

\* values the form fields source_lang and target_lang may have
LanguageCodes == {"en", "ru", "xx"}

\* translation_jobs has no entry for the job yet
NoJob == [ status |-> "none", progress |-> 0, output_file |-> Null, error |-> Null ]

InitApp ==
    /\ pc = "upload"
    /\ job = NoJob
    /\ detected = FALSE
    /\ detections = <<>>
    /\ bubble_data = <<>>
    /\ extraction_tasks = <<>>
    /\ files = {}
    /\ context_manager = <<>>
    /\ translation_tasks = <<>>
    /\ draw_log = <<>>
    /\ output_exists = FALSE
    /\ exc = "none"
    /\ DrawIdle
    /\ SeriesIdle
    /\ StoreIdle
    /\ CropIdle

\* A request without an acceptable file gets a 400 and registers nothing.
\* Otherwise the job is registered, the launch is logged with
\* SUPPORTED_LANGUAGES[source_lang] and SUPPORTED_LANGUAGES[target_lang]
\* (a KeyError ends the request there), and the worker thread is started.
UploadFile ==
    /\ pc = "upload"
    /\ \E accepted \in BOOLEAN, source_lang \in LanguageCodes, target_lang \in LanguageCodes :
          IF ~accepted
          THEN /\ job' = job
               /\ pc' = "rejected"
          ELSE /\ job' = NewJob
               /\ pc' = IF source_lang \in SupportedLanguages
                           /\ target_lang \in SupportedLanguages
                        THEN "thread_start" ELSE "upload_raised"
    /\ UNCHANGED << draw_vars, series_vars, store_vars, crop_vars >>
    /\ UNCHANGED << pipeline_locals, files, output_exists, exc >>

NextApp == UploadFile \/ Next

SpecApp == InitApp /\ [][NextApp]_vars

----------------------------------------------------------------------------
(* Properties *)

\* the pipeline has gone through both gathers and returned
Completed == pc = "returned" /\ detected /\ bubble_data # <<>>

\* the extraction results have been written to the bubbles
Assigned == pc \in {"translating", "returned"} /\ detected /\ bubble_data # <<>>

\* the translation task created for bubble i, if there is one
TaskOf(i) == { j \in 1..Len(translation_tasks) : translation_tasks[j].index = i }

\* C1: a translation call that raises leaves the text of its own bubble as
\* the translated text; every other translated bubble holds the outcome of
\* its own call; and an exception has escaped the pipeline only before any
\* translation task existed.
C1_TranslationFailureFallsBack ==
    /\ \A j \in 1..Len(translation_tasks) :
          LET t == translation_tasks[j]
          IN  (t.state = "done" /\ t.reply.kind = "exception") => t.result = t.text
    /\ Completed =>
          \A i \in 1..Len(bubble_data) : \A j \in TaskOf(i) :
              LET t == translation_tasks[j]
                  b == bubble_data[i]
              IN  /\ t.reply.kind = "exception" => b.translated_text = b.original_text
                  /\ t.reply.kind = "content" =>
                        b.translated_text = Strip(t.reply.content)
    /\ translation_tasks # <<>> => (pc # "raised" /\ exc = "none")

C1_Witness ==
    /\ Completed
    /\ \E j, k \in 1..Len(translation_tasks) :
          /\ translation_tasks[j].reply.kind = "exception"
          /\ translation_tasks[k].reply = ContentReply(
                TranslationContent(bubble_data[translation_tasks[k].index].original_text))
          /\ bubble_data[translation_tasks[j].index].translated_text
                = bubble_data[translation_tasks[j].index].original_text
          /\ bubble_data[translation_tasks[k].index].translated_text
                # bubble_data[translation_tasks[k].index].original_text

\* C2: a bubble whose original text is EMPTY or ERROR never has a translation
\* request issued for it, and when the pipeline has completed its translated
\* text is that sentinel.
C2_SentinelsNeverTranslated ==
    /\ \A j \in 1..Len(translation_tasks) :
          translation_tasks[j].requested =>
              /\ translation_tasks[j].text \notin SENTINELS
              /\ bubble_data[translation_tasks[j].index].original_text \notin SENTINELS
    /\ Completed =>
          \A i \in 1..Len(bubble_data) :
              bubble_data[i].original_text \in SENTINELS =>
                  bubble_data[i].translated_text = bubble_data[i].original_text

C2_Witness ==
    /\ Completed
    /\ \E i, k \in 1..Len(bubble_data) :
          /\ bubble_data[i].original_text = EMPTY
          /\ bubble_data[i].translated_text = EMPTY
          /\ bubble_data[k].original_text = ERROR
          /\ bubble_data[k].translated_text = ERROR

\* C3: when the pipeline has completed, the translated text of every bubble
\* is set: it is a sentinel, the bubble's own original text, or the stripped
\* content its translation call returned; it is never None.
C3_TranslatedTextAlwaysSet ==
    Completed =>
        \A i \in 1..Len(bubble_data) :
            LET b == bubble_data[i]
            IN  /\ b.translated_text # NoneVal
                /\ \/ b.translated_text \in SENTINELS
                   \/ b.translated_text = b.original_text
                   \/ \E j \in TaskOf(i) :
                         /\ translation_tasks[j].reply.kind = "content"
                         /\ b.translated_text = Strip(translation_tasks[j].reply.content)

C3_Witness ==
    /\ Completed
    /\ Len(bubble_data) >= 2
    /\ \E i, k \in 1..Len(bubble_data) :
          /\ bubble_data[i].original_text = ERROR
          /\ bubble_data[k].original_text \notin SENTINELS
          /\ bubble_data[k].translated_text \notin {NoneVal, bubble_data[k].original_text}

\* C4: an extraction call that raises gives its region the result ERROR; it
\* cancels no sibling and lets no exception escape (only a crop that cannot be
\* made or read does); once every call has resolved the gather returns, and
\* after it every region holds exactly one result.
C4_ExtractionFailureIsolated ==
    /\ \A i \in 1..Len(extraction_tasks) :
          LET t == extraction_tasks[i]
          IN  /\ (t.state = "done" /\ t.reply.kind = "exception") => t.result = ERROR
              /\ t.state = "cancelled" => exc = "read"
    /\ (\E i \in 1..Len(extraction_tasks) : extraction_tasks[i].reply.kind = "exception")
          => (pc # "raised" /\ exc = "none")
    /\ (pc = "extracting"
          /\ \A i \in 1..Len(extraction_tasks) : extraction_tasks[i].state = "done")
          => ENABLED JoinExtraction
    /\ Assigned =>
          /\ Len(extraction_tasks) = Len(bubble_data)
          /\ \A i \in 1..Len(bubble_data) :
                /\ extraction_tasks[i].state = "done"
                /\ bubble_data[i].original_text # NoneVal
                /\ extraction_tasks[i].reply.kind = "exception"
                      => bubble_data[i].original_text = ERROR

C4_Witness ==
    /\ Assigned
    /\ \E i, k \in 1..Len(bubble_data) :
          /\ extraction_tasks[i].reply.kind = "exception"
          /\ bubble_data[i].original_text = ERROR
          /\ extraction_tasks[k].reply.kind = "content"
          /\ bubble_data[k].original_text = <<Word(bubble_data[k].bubble_id)>>

\* C5: whenever the detector call has returned and the pipeline has ended, by
\* a return or by an exception, the output image has been written.
C5_PageResultProduced ==
    (detected /\ pc \in {"returned", "raised"}) => (pc = "returned" /\ output_exists)

\* C6: when the detector reports no box, the pipeline returns with an output
\* image written.
C6_ZeroDetectionsProduceOutput ==
    (detected /\ detections = <<>> /\ pc = "returned") => output_exists

\* C7: after the extraction results are written, the original text of every
\* bubble is what the call on the crop of its own region returned; and when
\* the pipeline has completed, the translated text of every translated bubble
\* is what the request built from its own original text returned, whichever
\* bubbles were skipped as sentinels.
C7_ResultsGoToOriginatingBubble ==
    /\ Assigned =>
          \A i \in 1..Len(bubble_data) :
              LET t == extraction_tasks[i]
                  b == bubble_data[i]
              IN  /\ t.bubble_image = TempPath(b)
                  /\ t.reply \in ExtractionReplies(b)
                  /\ b.original_text =
                        (IF t.reply.kind = "content" THEN Strip(t.reply.content) ELSE ERROR)
    /\ Assigned =>
          \A j \in 1..Len(translation_tasks) :
              translation_tasks[j].text
                  = bubble_data[translation_tasks[j].index].original_text
    /\ Completed =>
          \A i \in 1..Len(bubble_data) :
              /\ Cardinality(TaskOf(i))
                    = (IF bubble_data[i].original_text \in SENTINELS THEN 0 ELSE 1)
              /\ \A j \in TaskOf(i) :
                    LET t == translation_tasks[j]
                    IN  /\ t.reply \in TranslationReplies(bubble_data[i].original_text)
                        /\ bubble_data[i].translated_text =
                              (IF t.reply.kind = "content"
                               THEN Strip(t.reply.content)
                               ELSE bubble_data[i].original_text)

C7_Witness ==
    /\ Completed
    /\ Len(bubble_data) >= 2
    /\ bubble_data[1].original_text \in SENTINELS
    /\ bubble_data[2].original_text = <<Word(bubble_data[2].bubble_id)>>
    /\ bubble_data[2].bubble_id = 1
    /\ bubble_data[2].translated_text = <<"ru:", Word(1)>>

\* C8: the sorted list holds every reported box once, under the id of its
\* place in the report; it is in non-decreasing order of (y, x); and bubbles
\* with equal (y, x) are in ascending order of id.
C8_ReadingOrder ==
    detected =>
        /\ Len(bubble_data) = Len(detections)
        /\ \A id \in 1..Len(detections) :
              \E i \in 1..Len(bubble_data) :
                  /\ bubble_data[i].bubble_id = id
                  /\ bubble_data[i].x = detections[id].x1
                  /\ bubble_data[i].y = detections[id].y1
                  /\ bubble_data[i].width = detections[id].x2 - detections[id].x1
                  /\ bubble_data[i].height = detections[id].y2 - detections[id].y1
        /\ \A i, j \in 1..Len(bubble_data) :
              i < j =>
                  /\ \/ bubble_data[i].y < bubble_data[j].y
                     \/ /\ bubble_data[i].y = bubble_data[j].y
                        /\ bubble_data[i].x <= bubble_data[j].x
                  /\ (bubble_data[i].y = bubble_data[j].y
                         /\ bubble_data[i].x = bubble_data[j].x)
                        => bubble_data[i].bubble_id < bubble_data[j].bubble_id

\* the detector reported a lower box before a higher one, and two boxes with
\* one corner
C8_Witness ==
    /\ detected
    /\ Len(detections) >= 2
    /\ detections[1].y1 > detections[2].y1
    /\ bubble_data[1].bubble_id = 2
    /\ bubble_data[2].bubble_id = 1

C8_WitnessTie ==
    /\ detected
    /\ Len(detections) >= 2
    /\ detections[1] = detections[2]
    /\ bubble_data[1].bubble_id = 1
    /\ bubble_data[2].bubble_id = 2

C11_SentinelBubblesUntouched ==
    Completed =>
        \A i \in 1..Len(bubble_data) :
            bubble_data[i].original_text \in SENTINELS =>
                \A k \in 1..Len(draw_log) :
                    draw_log[k].bubble_id # bubble_data[i].bubble_id

C11_Witness ==
    /\ Completed
    /\ \E i, j \in 1..Len(bubble_data) :
          /\ bubble_data[i].original_text = EMPTY
          /\ bubble_data[j].original_text \notin SENTINELS
          /\ \E k \in 1..Len(draw_log) :
                /\ draw_log[k].op = "ellipse"
                /\ draw_log[k].bubble_id = bubble_data[j].bubble_id

\* a sequence of draw calls in which no ellipse follows a text
CoversBeforeTexts(log) ==
    \A i, j \in 1..Len(log) :
        (i < j /\ log[i].op = "text") => log[j].op = "text"

\* C12: in the draw calls of a page no ellipse follows a text, in the
\* concurrent pipeline and in the two passes of the sequential one.
C12_CoversBeforeTexts ==
    /\ CoversBeforeTexts(draw_log)
    /\ Completed => CoversBeforeTexts(RenderSequential(bubble_data))

C12_Witness ==
    /\ Completed
    /\ Len(draw_log) = 4
    /\ draw_log[1].op = "ellipse" /\ draw_log[2].op = "ellipse"
    /\ draw_log[3].op = "text" /\ draw_log[4].op = "text"
    /\ draw_log[1].bubble_id # draw_log[2].bubble_id

\* C16: when the pipeline ends without a detection (the model did not load
\* or the detector call raised), no extraction task was created, no output
\* was written, and the pipeline ended by raising, not by returning.
C16_DetectionFailureSurfaced ==
    (pc \in {"returned", "raised"} /\ ~detected) =>
        /\ extraction_tasks = <<>>
        /\ ~output_exists
        /\ pc = "raised"

C19_WitnessFewer ==
    /\ pc = "translating"
    /\ Len(extraction_tasks) = 2
    /\ Len(translation_tasks) = 1

\* C20: no failure of cropping a bubble or of reading its crop ends the
\* pipeline with an exception.
C20_CropFailureConfined ==
    pc = "raised" => exc \notin {"crop", "read"}

\* C13: a call of draw_text_in_bubble that has ended has returned True or
\* False, and its loop body ran at most (max_font_size - 8)/2 + 1 times.
C13_ShrinkToFitReturns ==
    draw_pc = "done" =>
        /\ draw_returned \in {"True", "False"}
        /\ FontStep * iterations <= (draw_args.max_font_size - FontFloor) + FontStep

\* the number of iterations alone
C13_IterationBound ==
    draw_args.max_font_size > FontFloor =>
        FontStep * iterations <= (draw_args.max_font_size - FontFloor) + FontStep

\* what a store exposes besides its client
SameStore(a, b) ==
    /\ a.bubble_contexts = b.bubble_contexts
    /\ a.characters = b.characters
    /\ a.page_contexts = b.page_contexts
    /\ a.genre = b.genre
    /\ a.story_arc = b.story_arc
    /\ a.current_page = b.current_page

\* C14: loading what save_context wrote for the store into a fresh store
\* gives the same bubbles in the same order, the same characters with the
\* same data, the same page contexts, genre, story arc and current page;
\* and so does every context file on disk that was written for the store.
C14_SaveLoadRoundTrip ==
    /\ SameStore(LoadContext(NewStore, SaveContext(store)), store)
    /\ (series_pc \in {"page_start", "returned"} /\ page_i > 0
            /\ context_files[page_i].kind = "json") =>
          SameStore(LoadContext(NewStore, context_files[page_i].data), store)

C14_Witness ==
    /\ series_pc = "returned"
    /\ page_i = 2
    /\ context_files[1].kind = "json"
    /\ context_files[2].kind = "json"
    /\ Len(store.bubble_contexts) = 2
    /\ store.bubble_contexts[1].translated_text # NoneVal
    /\ store.bubble_contexts[2].translated_text = NoneVal
    /\ Len(store.characters) = 2
    /\ store.characters[1].value.speech_patterns # <<>>
    /\ Len(store.page_contexts) = 2
    /\ store.genre = "action"
    /\ LoadContext(NewStore, context_files[2].data).bubble_contexts
          = store.bubble_contexts

\* C15: a run at the start of page i + 1, i > 0, whose context file of page
\* i is missing or corrupt never goes on to process that page.
C15_UnloadableContextStopsSeries ==
    [][ (series_pc = "page_start" /\ page_i > 0
            /\ context_files[page_i].kind # "json")
        => series_pc' # "process" ]_vars

\* the half that holds: a corrupt file never lets the series go on
C15_CorruptContextRaises ==
    [][ (series_pc = "page_start" /\ page_i > 0
            /\ context_files[page_i].kind = "corrupt")
        => series_pc' \in {"page_start", "raised"} ]_vars

\* the sizes max, max - 2, ... that are not below the floor
SizesDownToFloor(max_font_size) ==
    { size \in FontFloor..max_font_size : (max_font_size - size) % FontStep = 0 }

\* the text of the call fits at this size
FitsAt(size) == Fits(draw_args.text, draw_args.width, draw_args.height, size)

\* C23: a call that returned True drew at the largest size of max, max - 2,
\* ... down to the floor 8 at which the text fits, and a call that returned
\* False had no such size at which the text fits.
C23_LargestFittingSize ==
    draw_pc = "done" =>
        /\ draw_returned = "True" =>
              /\ FitsAt(font_size)
              /\ font_size \in SizesDownToFloor(draw_args.max_font_size)
              /\ \A size \in SizesDownToFloor(draw_args.max_font_size) :
                    size > font_size => ~FitsAt(size)
        /\ draw_returned = "False" =>
              \A size \in SizesDownToFloor(draw_args.max_font_size) : ~FitsAt(size)

\* the half that holds: True is returned at the largest fitting size
C23_TrueAtLargestFittingSize ==
    (draw_pc = "done" /\ draw_returned = "True") =>
        /\ FitsAt(font_size)
        /\ \A size \in SizesDownToFloor(draw_args.max_font_size) :
              size > font_size => ~FitsAt(size)

\* C25: when the pipeline has completed, every bubble for which an ellipse
\* was drawn also has its text drawn.
C25_CoveredBubbleGetsText ==
    Completed =>
        \A k \in 1..Len(draw_log) :
            draw_log[k].op = "ellipse" =>
                \E l \in 1..Len(draw_log) :
                    /\ draw_log[l].op = "text"
                    /\ draw_log[l].bubble_id = draw_log[k].bubble_id

\* C27: a completed job has progress 100 and an output file, a failed job
\* has an error, and a completed or failed job keeps its status.
C27_TerminalStatusConsistent ==
    /\ job.status = "completed" =>
          job.progress = 100 /\ job.output_file # Null
    /\ job.status = "failed" => job.error # Null

\* the half that holds: a terminal status never changes
C27_TerminalStatusStable ==
    [][ job.status \in {"completed", "failed"} => job'.status = job.status ]_vars

\* C26: when the request and the worker of a job have come to their end, a
\* registered job is completed or failed.
C26_RegisteredJobEnds ==
    pc \in {"rejected", "upload_raised", "thread_end"} =>
        job.status \in {"none", "completed", "failed"}

\* the half that holds: a worker that was started ends with the job
\* completed or failed
C26_StartedWorkerEnds ==
    pc = "thread_end" => job.status \in {"completed", "failed"}

\* the names of the characters a store knows
CharacterNames(st) == { st.characters[k].key : k \in 1..Len(st.characters) }

\* C24: in a run of a series no step removes a name from the characters
\* the store knows.
C24_CharacterNamesOnlyGrow ==
    [][ series_pc # "idle" =>
            CharacterNames(store) \subseteq CharacterNames(store') ]_vars

\* the part that holds: every step but a load that raises keeps the names
C24_NamesGrowUnlessLoadRaises ==
    [][ (series_pc # "idle" /\ series_pc' # "raised") =>
            CharacterNames(store) \subseteq CharacterNames(store') ]_vars

\* C29: a load_context that raises leaves characters, page contexts, bubble
\* contexts, genre, story arc and current page of the store as they were.
C29_FailedLoadLeavesStore ==
    [][ (series_pc = "page_start" /\ series_pc' = "raised") =>
            SameStore(store', store) ]_vars

\* C22: the recent bubbles of a prompt are no more than its window.
C22_PromptWindowCapped ==
    Len(prompt.recent_bubbles) <= prompt.max_context_bubbles

\* the part that holds: for a window of at least 1 the prompt carries the
\* last entries of the store, in their order, and no more than the window
C22_PositiveWindowCapped ==
    [][ (prompt' # prompt /\ prompt'.max_context_bubbles >= 1) =>
            /\ Len(prompt'.recent_bubbles) <= prompt'.max_context_bubbles
            /\ Len(prompt'.recent_bubbles) <= Len(store.bubble_contexts)
            /\ \A k \in 1..Len(prompt'.recent_bubbles) :
                  prompt'.recent_bubbles[k] =
                      store.bubble_contexts[Len(store.bubble_contexts)
                          - Len(prompt'.recent_bubbles) + k]
            /\ \/ Len(prompt'.recent_bubbles) = prompt'.max_context_bubbles
               \/ Len(prompt'.recent_bubbles) = Len(store.bubble_contexts) ]_vars

\* C30: current_page_context is unset exactly when page_contexts is empty,
\* and is otherwise the last element of page_contexts.
C30_CurrentPageContextIsLast ==
    /\ store.current_page_context = <<>> <=> store.page_contexts = <<>>
    /\ store.page_contexts # <<>> =>
          store.current_page_context
              = << store.page_contexts[Len(store.page_contexts)] >>

\* the part that holds: every analysis appends exactly one page context
\* and makes it the current one
C30_AnalysisAppendsOne ==
    [][ (calls' # calls /\ store'.page_contexts # store.page_contexts
            /\ Len(store'.page_contexts) > Len(store.page_contexts)) =>
            /\ Len(store'.page_contexts) = Len(store.page_contexts) + 1
            /\ store'.current_page_context
                  = << store'.page_contexts[Len(store'.page_contexts)] >> ]_vars

C21_OwnCropOnDisk ==
    \A c \in crops :
        [name |-> c.name, run |-> c.run, bubble_id |-> c.bubble_id] \in disk

\* the part that holds: the names with the uuid prefix never collide, and the
\* crops of one run never collide with each other
C21_PrefixedNamesUnique ==
    /\ \A c1, c2 \in crops :
          (crop_runs[c1.run].pipeline = "multilang" /\ c1.name = c2.name) => c1 = c2
    /\ \A c1, c2 \in crops : (c1.run = c2.run /\ c1.name = c2.name) => c1 = c2
    /\ \A c \in crops :
          crop_runs[c.run].pipeline = "multilang" =>
              [name |-> c.name, run |-> c.run, bubble_id |-> c.bubble_id] \in disk

====
